---------------------------- MODULE Spec2Model ----------------------------
(***************************************************************************)
(* Model of the registration endpoint src/app/api/register/route.ts:       *)
(* the in-memory rate limiter, the text sanitizer, the field validators    *)
(* and the POST handler with its two await points (req.formData() and the  *)
(* Supabase insert).                                                       *)
(*                                                                         *)
(* A JavaScript string is a sequence of characters; a character is a       *)
(* one-element name ("a", " ", "TAB", "U+00A0", ...).                      *)
(***************************************************************************)
EXTENDS Integers, Sequences, FiniteSets, TLC

VARIABLES now, rateLimitStore, req, last, submissions, window, pure, admits

vars == <<now, rateLimitStore, req, last, submissions, window, pure, admits>>

Min(a, b) == IF a < b THEN a ELSE b
Max(a, b) == IF a > b THEN a ELSE b
Range(s) == {s[i] : i \in 1..Len(s)}
Rep(c, n) == [i \in 1..n |-> c]

(***************************************************************************)
(* Character classes of the regular expressions in route.ts                *)
(***************************************************************************)
\* [\u0000-\u001F\u007F]
ControlChars ==
  {"NUL", "SOH", "STX", "ETX", "EOT", "ENQ", "ACK", "BEL", "BS", "TAB", "LF",
   "VT", "FF", "CR", "SO", "SI", "DLE", "DC1", "DC2", "DC3", "DC4", "NAK",
   "SYN", "ETB", "CAN", "EM", "SUB", "ESC", "FS", "GS", "RS", "US", "DEL"}

\* \s of ECMAScript: WhiteSpace and LineTerminator
WhitespaceChars ==
  {"TAB", "LF", "VT", "FF", "CR", " ", "U+00A0", "U+1680", "U+2000", "U+2001",
   "U+2002", "U+2003", "U+2004", "U+2005", "U+2006", "U+2007", "U+2008",
   "U+2009", "U+200A", "U+2028", "U+2029", "U+202F", "U+205F", "U+3000",
   "U+FEFF"}

Digits == {"0", "1", "2", "3", "4", "5", "6", "7", "8", "9"}

Letters ==
  {"a", "b", "c", "d", "e", "f", "g", "h", "i", "j", "k", "l", "m", "n", "o",
   "p", "q", "r", "s", "t", "u", "v", "w", "x", "y", "z",
   "A", "B", "C", "D", "E", "F", "G", "H", "I", "J", "K", "L", "M", "N", "O",
   "P", "Q", "R", "S", "T", "U", "V", "W", "X", "Y", "Z"}

IsControl(c) == c \in ControlChars
IsSpace(c) == c \in WhitespaceChars

(***************************************************************************)
(* String.prototype.replace / trim / slice as used by sanitizeText         *)
(***************************************************************************)
\* value.replace(/[\u0000-\u001F\u007F]/g, "")
StripControl(s) == SelectSeq(s, LAMBDA c : ~IsControl(c))

\* s.replace(/\s+/g, " "): every maximal run of whitespace becomes one space
CollapseWhitespace(s) ==
  LET idx  == [i \in 1..Len(s) |-> i]
      head == SelectSeq(idx, LAMBDA i : ~IsSpace(s[i]) \/ i = 1 \/ ~IsSpace(s[i - 1]))
  IN  [k \in 1..Len(head) |-> IF IsSpace(s[head[k]]) THEN " " ELSE s[head[k]]]

\* s.trim()
Trim(s) ==
  LET keep == {i \in 1..Len(s) : ~IsSpace(s[i])}
  IN  IF keep = {} THEN <<>>
      ELSE LET lo == CHOOSE i \in keep : \A j \in keep : i <= j
               hi == CHOOSE i \in keep : \A j \in keep : j <= i
           IN  SubSeq(s, lo, hi)

\* s.slice(0, n)
Slice0(s, n) ==
  LET end == IF n < 0 THEN Max(Len(s) + n, 0) ELSE Min(n, Len(s))
  IN  SubSeq(s, 1, end)

\* sanitizeText without its final slice
sanitizeTextNoTruncate(value, maxLength) ==
  Trim(CollapseWhitespace(StripControl(value)))

sanitizeText(value, maxLength) ==
  LET normalized == Trim(CollapseWhitespace(StripControl(value)))
  IN  Slice0(normalized, maxLength)

(***************************************************************************)
(* The patterns                                                            *)
(***************************************************************************)
AllIn(s, lo, hi, P(_)) == \A i \in lo..hi : P(s[i])

NotSpaceAt(c) == ~IsSpace(c) /\ c # "@"

\* /^[^\s@]+@[^\s@]+\.[^\s@]+$/
emailPattern(s) ==
  \E i \in 1..Len(s) : \E j \in (i + 1)..Len(s) :
     /\ s[i] = "@" /\ s[j] = "."
     /\ i > 1 /\ j > i + 1 /\ j < Len(s)
     /\ AllIn(s, 1, i - 1, NotSpaceAt)
     /\ AllIn(s, i + 1, j - 1, NotSpaceAt)
     /\ AllIn(s, j + 1, Len(s), NotSpaceAt)

PhoneChar(c) == c \in Digits \cup {"+", "(", ")", "-", "."} \/ IsSpace(c)

\* /^[0-9+()\-.\s]{7,20}$/
phonePattern(s) == Len(s) >= 7 /\ Len(s) <= 20 /\ AllIn(s, 1, Len(s), PhoneChar)

GradeChar(c) == c \in Letters \cup Digits \cup {"U+00B0", "U+00BA", "-"} \/ IsSpace(c)

\* /^[A-Za-z0-9°º\s-]{1,15}$/
gradePattern(s) == Len(s) >= 1 /\ Len(s) <= 15 /\ AllIn(s, 1, Len(s), GradeChar)

IdChar(c) == c \in Letters \cup Digits \cup {"-", "."}

\* /^[A-Za-z0-9\-.]{5,30}$/
idPattern(s) == Len(s) >= 5 /\ Len(s) <= 30 /\ AllIn(s, 1, Len(s), IdChar)

\* options.pattern.test(sanitized); "none" stands for an absent pattern
PatternTest(pattern, s) ==
  CASE pattern = "email" -> emailPattern(s)
    [] pattern = "phone" -> phonePattern(s)
    [] pattern = "grade" -> gradePattern(s)
    [] pattern = "id"    -> idPattern(s)
    [] OTHER             -> TRUE

(***************************************************************************)
(* Errors and responses                                                    *)
(***************************************************************************)
\* class ClientError extends Error { status } ; default status 400
ClientError(message, status) ==
  [name |-> "ClientError", message |-> message, status |-> status]

\* a validation error with another status
ClientError422(message) == ClientError(message, 422)

ClientError400(message) == ClientError(message, 400)

\* new Error(message)
PlainError(message) == [name |-> "Error", message |-> message, status |-> 0]

NoError == [name |-> "none", message |-> <<>>, status |-> 0]

Returned(v, calls) == [threw |-> FALSE, error |-> NoError, value |-> v, calls |-> calls]
Thrown(e, calls) == [threw |-> TRUE, error |-> e, value |-> <<>>, calls |-> calls]

RequiredMessage(label) == <<"El campo ", label, " es obligatorio.">>
FormatMessage(label) == <<label, " tiene un formato inválido.">>
ServicesMessage == <<"Selecciona al menos un servicio válido (AM, PM o 1/2).">>
RateLimitMessage == <<"Demasiadas solicitudes, intenta de nuevo en unos minutos.">>
InsertFailedMessage == <<"No se pudo guardar el formulario.">>
GenericMessage == <<"Error interno, intenta más tarde.">>
SuccessMessage == <<"Formulario enviado correctamente">>

(***************************************************************************)
(* FormData: each name maps to the sequence of values submitted under it   *)
(***************************************************************************)
Null == [null |-> TRUE, str |-> <<>>]
JsString(s) == [null |-> FALSE, str |-> s]

\* formData.get(key): the first value, or null
FormDataGet(formData, key) ==
  IF formData[key] = <<>> THEN Null ELSE JsString(formData[key][1])

\* formData.getAll(key)
FormDataGetAll(formData, key) == formData[key]

\* !value
Falsy(value) == value.null \/ value.str = <<>>

(***************************************************************************)
(* parseField and the option objects passed to it by POST                  *)
(***************************************************************************)
Rule(maxLength, pattern, label) ==
  [maxLength |-> maxLength, pattern |-> pattern, label |-> label]

\* the options argument of each parseField call of POST; a call without a
\* label gets key.replace(/_/g, " ")
FieldRules ==
  [student_name         |-> Rule(120, "none",  "nombre del estudiante"),
   grade                |-> Rule(15,  "grade", "grado a cursar"),
   address              |-> Rule(150, "none",  "dirección"),
   municipio            |-> Rule(100, "none",  "municipio"),
   sector               |-> Rule(100, "none",  "sector"),
   urbanizacion         |-> Rule(100, "none",  "urbanizacion"),
   bloque               |-> Rule(50,  "none",  "bloque o interior"),
   father_name          |-> Rule(120, "none",  "nombre del padre"),
   father_phone         |-> Rule(20,  "phone", "celular del padre"),
   father_office_phone  |-> Rule(20,  "phone", "teléfono de oficina (padre)"),
   father_email         |-> Rule(120, "email", "email del padre"),
   mother_name          |-> Rule(120, "none",  "nombre de la madre"),
   mother_phone         |-> Rule(20,  "phone", "celular de la madre"),
   mother_office_phone  |-> Rule(20,  "phone", "teléfono de oficina (madre)"),
   mother_email         |-> Rule(120, "email", "email de la madre"),
   other_guardian       |-> Rule(120, "none",  "otro acudiente"),
   other_guardian_phone |-> Rule(20,  "phone", "celular del otro acudiente"),
   responsible_id       |-> Rule(30,  "id",    "cédula del responsable"),
   observaciones        |-> Rule(500, "none",  "observaciones")]

\* the order of the parseField calls in POST
FieldOrder ==
  <<"student_name", "grade", "address", "municipio", "sector", "urbanizacion",
    "bloque", "father_name", "father_phone", "father_office_phone",
    "father_email", "mother_name", "mother_phone", "mother_office_phone",
    "mother_email", "other_guardian", "other_guardian_phone", "responsible_id",
    "observaciones">>

TextFields == Range(FieldOrder)

\* parseField without the second emptiness test
parseFieldNoBlankCheck(formData, key, options) ==
  LET label == options.label
      value == FormDataGet(formData, key)
  IN  IF Falsy(value) THEN Thrown(ClientError400(RequiredMessage(label)), 1)
      ELSE LET sanitized == sanitizeText(value.str, options.maxLength)
           IN  IF options.pattern # "none" /\ ~PatternTest(options.pattern, sanitized)
                 THEN Thrown(ClientError400(FormatMessage(label)), 1)
               ELSE Returned(sanitized, 1)

parseField(formData, key, options) ==
  LET label == options.label
      value == FormDataGet(formData, key)
  IN  IF Falsy(value) THEN Thrown(ClientError400(RequiredMessage(label)), 1)
      ELSE LET sanitized == sanitizeText(value.str, options.maxLength)
           IN  IF sanitized = <<>>
                 THEN Thrown(ClientError400(RequiredMessage(label)), 1)
               ELSE IF options.pattern # "none" /\ ~PatternTest(options.pattern, sanitized)
                 THEN Thrown(ClientError400(FormatMessage(label)), 1)
               ELSE Returned(sanitized, 1)

(***************************************************************************)
(* parseServices                                                           *)
(***************************************************************************)
ALLOWED_SERVICES == {<<"A", "M">>, <<"P", "M">>, <<"1", "/", "2">>}

\* the array copied as it is
UniqueKeepsAll(xs) == xs

\* Array.from(new Set(xs)): first occurrences, in order
Unique(xs) ==
  LET idx  == [i \in 1..Len(xs) |-> i]
      keep == SelectSeq(idx, LAMBDA i : \A j \in 1..(i - 1) : xs[j] # xs[i])
  IN  [k \in 1..Len(keep) |-> xs[keep[k]]]

\* parseServices that returns whatever was selected
parseServicesNoCheck(formData) ==
  LET raw      == FormDataGetAll(formData, "service_options")
      mapped   == [i \in 1..Len(raw) |-> sanitizeText(raw[i], 10)]
      services == SelectSeq(mapped, LAMBDA x : x # <<>>)
  IN  Returned(Unique(services), 1)

parseServices(formData) ==
  LET raw      == FormDataGetAll(formData, "service_options")
      mapped   == [i \in 1..Len(raw) |-> sanitizeText(raw[i], 10)]
      services == SelectSeq(mapped, LAMBDA x : x # <<>>)
      unique   == Unique(services)
      invalid  == SelectSeq(unique, LAMBDA x : x \notin ALLOWED_SERVICES)
  IN  IF Len(invalid) > 0 \/ Len(unique) = 0
        THEN Thrown(ClientError400(ServicesMessage), 1)
        ELSE Returned(unique, 1)

(***************************************************************************)
(* Client identification and the rate limiter                              *)
(***************************************************************************)
RATE_LIMIT_WINDOW_MS == 5 * 60 * 1000
RATE_LIMIT_MAX_REQUESTS == 10

Unknown == <<"u", "n", "k", "n", "o", "w", "n">>

\* s.split(",")[0]
FirstCommaPart(s) ==
  LET commas == {i \in 1..Len(s) : s[i] = ","}
  IN  IF commas = {} THEN s
      ELSE SubSeq(s, 1, (CHOOSE i \in commas : \A j \in commas : i <= j) - 1)

\* headers: [xff, xri], each Null or JsString(_)
getClientId(headers) ==
  LET forwardedFor == headers.xff
  IN  IF ~Falsy(forwardedFor)
        THEN LET first == Trim(FirstCommaPart(forwardedFor.str))
             IN  IF first # <<>> THEN first ELSE Unknown
        ELSE IF ~Falsy(headers.xri) THEN headers.xri.str ELSE Unknown

\* Map.prototype.set
MapSet(map, key, value) ==
  [k \in DOMAIN map \cup {key} |-> IF k = key THEN value ELSE map[k]]

\* enforceRateLimit that admits one request too many (> for >=)
enforceRateLimitOffByOne(store, clientId, t) ==
  IF clientId \in DOMAIN store /\ store[clientId].expiresAt > t
    THEN IF store[clientId].hits > RATE_LIMIT_MAX_REQUESTS
           THEN [threw |-> TRUE, error |-> ClientError(RateLimitMessage, 429), store |-> store]
           ELSE [threw |-> FALSE, error |-> NoError,
                 store |-> MapSet(store, clientId,
                                  [store[clientId] EXCEPT !.hits = @ + 1])]
    ELSE [threw |-> FALSE, error |-> NoError,
          store |-> MapSet(store, clientId,
                           [hits |-> 1, expiresAt |-> t + RATE_LIMIT_WINDOW_MS])]

\* enforceRateLimit that writes a new count over the stored one
enforceRateLimitOverwrite(store, clientId, t) ==
  IF clientId \in DOMAIN store /\ store[clientId].expiresAt > t
    THEN IF store[clientId].hits >= RATE_LIMIT_MAX_REQUESTS
           THEN [threw |-> TRUE, error |-> ClientError(RateLimitMessage, 429), store |-> store]
           ELSE [threw |-> FALSE, error |-> NoError,
                 store |-> MapSet(store, clientId,
                                  [store[clientId] EXCEPT !.hits = 1])]
    ELSE [threw |-> FALSE, error |-> NoError,
          store |-> MapSet(store, clientId,
                           [hits |-> 1, expiresAt |-> t + RATE_LIMIT_WINDOW_MS])]

\* enforceRateLimit that counts the request it rejects
enforceRateLimitCountsRejected(store, clientId, t) ==
  IF clientId \in DOMAIN store /\ store[clientId].expiresAt > t
    THEN [threw |-> store[clientId].hits >= RATE_LIMIT_MAX_REQUESTS,
          error |-> IF store[clientId].hits >= RATE_LIMIT_MAX_REQUESTS
                      THEN ClientError(RateLimitMessage, 429) ELSE NoError,
          store |-> MapSet(store, clientId, [store[clientId] EXCEPT !.hits = @ + 1])]
    ELSE [threw |-> FALSE, error |-> NoError,
          store |-> MapSet(store, clientId,
                           [hits |-> 1, expiresAt |-> t + RATE_LIMIT_WINDOW_MS])]

\* enforceRateLimit that still honours an entry at the instant it expires
enforceRateLimitInclusiveExpiry(store, clientId, t) ==
  IF clientId \in DOMAIN store /\ store[clientId].expiresAt >= t
    THEN IF store[clientId].hits >= RATE_LIMIT_MAX_REQUESTS
           THEN [threw |-> TRUE, error |-> ClientError(RateLimitMessage, 429), store |-> store]
           ELSE [threw |-> FALSE, error |-> NoError,
                 store |-> MapSet(store, clientId,
                                  [store[clientId] EXCEPT !.hits = @ + 1])]
    ELSE [threw |-> FALSE, error |-> NoError,
          store |-> MapSet(store, clientId,
                           [hits |-> 1, expiresAt |-> t + RATE_LIMIT_WINDOW_MS])]

\* enforceRateLimit that restarts the window on every admitted request
enforceRateLimitSliding(store, clientId, t) ==
  IF clientId \in DOMAIN store /\ store[clientId].expiresAt > t
    THEN IF store[clientId].hits >= RATE_LIMIT_MAX_REQUESTS
           THEN [threw |-> TRUE, error |-> ClientError(RateLimitMessage, 429), store |-> store]
           ELSE [threw |-> FALSE, error |-> NoError,
                 store |-> MapSet(store, clientId,
                                  [hits |-> store[clientId].hits + 1,
                                   expiresAt |-> t + RATE_LIMIT_WINDOW_MS])]
    ELSE [threw |-> FALSE, error |-> NoError,
          store |-> MapSet(store, clientId,
                           [hits |-> 1, expiresAt |-> t + RATE_LIMIT_WINDOW_MS])]

\* enforceRateLimit whose new window does not count the request that opens it
enforceRateLimitResetToZero(store, clientId, t) ==
  IF clientId \in DOMAIN store /\ store[clientId].expiresAt > t
    THEN IF store[clientId].hits >= RATE_LIMIT_MAX_REQUESTS
           THEN [threw |-> TRUE, error |-> ClientError(RateLimitMessage, 429), store |-> store]
           ELSE [threw |-> FALSE, error |-> NoError,
                 store |-> MapSet(store, clientId,
                                  [store[clientId] EXCEPT !.hits = @ + 1])]
    ELSE [threw |-> FALSE, error |-> NoError,
          store |-> MapSet(store, clientId,
                           [hits |-> 0, expiresAt |-> t + RATE_LIMIT_WINDOW_MS])]

\* the store is passed in and handed back; t is Date.now()
enforceRateLimit(store, clientId, t) ==
  IF clientId \in DOMAIN store /\ store[clientId].expiresAt > t
    THEN IF store[clientId].hits >= RATE_LIMIT_MAX_REQUESTS
           THEN [threw |-> TRUE, error |-> ClientError(RateLimitMessage, 429), store |-> store]
           ELSE [threw |-> FALSE, error |-> NoError,
                 store |-> MapSet(store, clientId,
                                  [store[clientId] EXCEPT !.hits = @ + 1])]
    ELSE [threw |-> FALSE, error |-> NoError,
          store |-> MapSet(store, clientId,
                           [hits |-> 1, expiresAt |-> t + RATE_LIMIT_WINDOW_MS])]

(***************************************************************************)
(* The synchronous stretch of POST between its two awaits: the nineteen    *)
(* parseField calls in source order, then parseServices                    *)
(***************************************************************************)
NoRecord == <<>>

RECURSIVE ParseFieldsFrom(_, _, _, _)
ParseFieldsFrom(formData, order, i, acc) ==
  IF i > Len(order) THEN Returned(acc, Len(order))
  ELSE LET r == parseField(formData, order[i], FieldRules[order[i]])
       IN  IF r.threw THEN Thrown(r.error, i)
           ELSE ParseFieldsFrom(formData, order, i + 1,
                                [k \in DOMAIN acc \cup {order[i]} |->
                                   IF k = order[i] THEN r.value ELSE acc[k]])

\* the order of the rule table of the specification, section 4.2
TableOrder ==
  <<"student_name", "father_name", "mother_name", "other_guardian",
    "father_email", "mother_email", "grade", "address", "municipio", "sector",
    "urbanizacion", "bloque", "father_phone", "father_office_phone",
    "mother_phone", "mother_office_phone", "other_guardian_phone",
    "responsible_id", "observaciones">>

\* the calls made in the order of the rule table
ParseFieldsTableOrder(formData) == ParseFieldsFrom(formData, TableOrder, 1, NoRecord)

RECURSIVE ParseAllFieldsFrom(_, _, _, _, _)
ParseAllFieldsFrom(formData, order, i, acc, err) ==
  IF i > Len(order)
    THEN IF err = NoError THEN Returned(acc, Len(order)) ELSE Thrown(err, Len(order))
  ELSE LET r == parseField(formData, order[i], FieldRules[order[i]])
       IN  ParseAllFieldsFrom(formData, order, i + 1,
             [k \in DOMAIN acc \cup {order[i]} |->
                IF k = order[i] THEN r.value ELSE acc[k]],
             IF r.threw THEN r.error ELSE err)

\* every field validated, the last error reported
ParseFieldsLastError(formData) ==
  ParseAllFieldsFrom(formData, FieldOrder, 1, NoRecord, NoError)

\* every field validated, errors dropped
ParseFieldsNoThrow(formData) ==
  LET r == ParseAllFieldsFrom(formData, FieldOrder, 1, NoRecord, NoError)
  IN  Returned(IF r.threw THEN [k \in TextFields |-> <<>>] ELSE r.value, r.calls)

\* the nineteen calls, stopping at the first throw
ParseFields(formData) == ParseFieldsFrom(formData, FieldOrder, 1, NoRecord)

Validation(threw, error, fieldCalls, serviceCalls, record) ==
  [threw |-> threw, error |-> error, fieldCalls |-> fieldCalls,
   serviceCalls |-> serviceCalls, record |-> record]

\* the object literal handed to supabase.from("submissions").insert
ValidateForm(formData) ==
  LET fields == ParseFields(formData)
  IN  IF fields.threw
        THEN Validation(TRUE, fields.error, fields.calls, 0, NoRecord)
        ELSE LET services == parseServices(formData)
             IN  IF services.threw
                   THEN Validation(TRUE, services.error, fields.calls, 1, NoRecord)
                   ELSE Validation(FALSE, NoError, fields.calls, 1,
                          [k \in TextFields \cup {"service_options"} |->
                             IF k = "service_options" THEN services.value
                             ELSE fields.value[k]])

(***************************************************************************)
(* Responses                                                               *)
(***************************************************************************)
Response(status, success, message, error) ==
  [status |-> status, success |-> success, message |-> message, error |-> error]

\* NextResponse.json({success: true, message}) : status 200
SuccessResponse == Response(200, TRUE, SuccessMessage, <<>>)

\* a catch block that answers every ClientError with 400
CatchResponseStatus400(err) ==
  LET status  == IF err.name = "ClientError" THEN 400 ELSE 500
      message == IF err.name = "ClientError" THEN err.message ELSE GenericMessage
  IN  Response(status, FALSE, <<>>, message)

\* a catch block that passes every error's message on
CatchResponseEchoesMessage(err) ==
  LET status == IF err.name = "ClientError" THEN err.status ELSE 500
  IN  Response(status, FALSE, <<>>, err.message)

\* the catch block of POST
CatchResponse(err) ==
  LET status  == IF err.name = "ClientError" THEN err.status ELSE 500
      message == IF err.name = "ClientError" THEN err.message ELSE GenericMessage
  IN  Response(status, FALSE, <<>>, message)

(***************************************************************************)
(* Bounds and the inputs the environment may send                          *)
(***************************************************************************)
MaxNow == 300001
MaxBurstNow == 600000
WindowCallsCap == 12
MaxOtherCalls == 1
MaxTail == 3
MaxText == 4
MaxSlice == 3
MaxServices == 3
MaxHeader == 3
MaxDigits == 6
MaxGap == 6

Handlers == {"h1", "h2"}

\* Date.now() moves forward between events by one of these amounts
TimeSteps == {RATE_LIMIT_WINDOW_MS - 1, RATE_LIMIT_WINDOW_MS, RATE_LIMIT_WINDOW_MS + 1}

\* details a failed insert may carry
StoreErrors == {"duplicate key value", "connection refused"}

HeadersA == [xff |-> JsString(<<" ", "7", " ", ",", "8">>), xri |-> Null]
HeadersB == [xff |-> Null, xri |-> JsString(<<"9">>)]
HeaderPool == {HeadersA, HeadersB}
ClientA == getClientId(HeadersA)

FormKeys == TextFields \cup {"service_options"}

ValidValue(key) ==
  CASE FieldRules[key].pattern = "email" -> <<"a", "@", "b", ".", "c">>
    [] FieldRules[key].pattern = "phone" -> <<"3", "0", "0", "1", "2", "3", "4">>
    [] FieldRules[key].pattern = "grade" -> <<"5", "U+00B0">>
    [] FieldRules[key].pattern = "id"    -> <<"1", "0", "2", "-", "7">>
    [] OTHER                             -> <<"A", "n", "a">>

ValidForm ==
  [k \in FormKeys |-> IF k = "service_options" THEN << <<"A", "M">> >>
                      ELSE << ValidValue(k) >>]

\* valid, but every value needs sanitizing and the options repeat
MessyForm ==
  [k \in FormKeys |->
     IF k = "service_options" THEN << <<"A", "M">>, <<" ", "A", "M", "LF">>, <<"P", "M">> >>
     ELSE << <<"TAB", " ">> \o ValidValue(k) \o <<"NUL", " ">> >>]

BadKinds == {"absent", "blank", "format"}

BadEntries(key, kind) ==
  CASE kind = "absent" -> <<>>
    [] kind = "blank"  -> << <<" ", "TAB", "U+00A0">> >>
    [] OTHER ->
         IF key = "service_options" THEN << <<"A", "M">>, <<"X", "X">> >>
         ELSE IF FieldRules[key].pattern = "none" THEN << <<"NUL", "DEL">> >>
         ELSE << <<"x", "!", "x">> >>

WithBad(formData, keys, kind) ==
  [k \in FormKeys |-> IF k \in keys THEN BadEntries(k, kind) ELSE formData[k]]

\* forms sent while several requests are in flight
SmallForms ==
  {MessyForm,
   WithBad(ValidForm, {"father_email"}, "absent"),
   WithBad(ValidForm, {"father_name", "grade"}, "format")}

\* forms with up to two bad entries, anywhere
AllForms ==
  {ValidForm, MessyForm} \cup
  {WithBad(ValidForm, {f, g}, kind) : f \in FormKeys, g \in FormKeys, kind \in BadKinds}

(***************************************************************************)
(* State                                                                   *)
(*   now            Date.now()                                             *)
(*   rateLimitStore the module-level Map                                   *)
(*   req            per handler: where its POST call is suspended          *)
(*   submissions    rows the store accepted                                *)
(*   last           the most recent response with what its request did     *)
(*   window         per client: the calls counted since the call that      *)
(*                  opened the current five-minute window (history)        *)
(*   pure           one call of a pure function (used by SpecPure only)    *)
(*   admits         per client and instant: the requests admitted then     *)
(*                  (history, kept by SpecBurst only)                      *)
(***************************************************************************)
NoResponse == Response(0, FALSE, <<>>, <<>>)
NoValidation == Validation(FALSE, NoError, 0, 0, NoRecord)

Idle == [pc |-> "idle", formData |-> <<>>, validation |-> NoValidation, inserts |-> 0]
AwaitFormData == [pc |-> "formData", formData |-> <<>>, validation |-> NoValidation, inserts |-> 0]
AwaitInsert(formData, v) == [pc |-> "insert", formData |-> formData, validation |-> v, inserts |-> 1]

Done(admitted, parsed, v, inserts, formData, insertError, response) ==
  [done |-> TRUE, admitted |-> admitted, parsed |-> parsed,
   fieldCalls |-> v.fieldCalls, serviceCalls |-> v.serviceCalls,
   record |-> v.record, inserts |-> inserts, formData |-> formData,
   insertError |-> insertError, response |-> response]

NoLast ==
  [done |-> FALSE, admitted |-> FALSE, parsed |-> FALSE, fieldCalls |-> 0,
   serviceCalls |-> 0, record |-> NoRecord, inserts |-> 0, formData |-> <<>>,
   insertError |-> "null", response |-> NoResponse]

NoCall ==
  [op |-> "none", key |-> "", entries |-> <<>>, maxLength |-> 0, done |-> FALSE,
   result |-> Returned(<<>>, 0), again |-> FALSE, second |-> Returned(<<>>, 0)]

ServerInit ==
  /\ now = 0
  /\ rateLimitStore = <<>>
  /\ req = [h \in Handlers |-> Idle]
  /\ submissions = {}
  /\ last = NoLast
  /\ window = <<>>
  /\ admits = <<>>

Init == ServerInit /\ pure = NoCall

\* history: the call counted against the window opened by the first call at
\* or after the previous window's end; reopened tells that there was a
\* previous window
CountCall(w, clientId, t, r) ==
  LET fresh == clientId \notin DOMAIN w
               \/ t >= w[clientId].start + RATE_LIMIT_WINDOW_MS
      one   == IF r.threw THEN 0 ELSE 1
  IN  MapSet(w, clientId,
        IF fresh
          THEN [start |-> t, calls |-> 1, admitted |-> one, lastError |-> r.error,
                reopened |-> clientId \in DOMAIN w]
          ELSE [start |-> w[clientId].start, reopened |-> w[clientId].reopened,
                calls |-> Min(w[clientId].calls + 1, WindowCallsCap),
                admitted |-> Min(w[clientId].admitted + one, WindowCallsCap),
                lastError |-> r.error])

(***************************************************************************)
(* POST, one action per stretch between awaits                             *)
(***************************************************************************)
\* lines 103-106: enforceRateLimit(getClientId(req)), then await req.formData()
Admission(h, headers) ==
  /\ req[h].pc = "idle"
  /\ LET clientId == getClientId(headers)
         r == enforceRateLimit(rateLimitStore, clientId, now)
     IN  /\ rateLimitStore' = r.store
         /\ window' = CountCall(window, clientId, now, r)
         /\ IF r.threw
              THEN /\ last' = Done(FALSE, FALSE, NoValidation, 0, <<>>, "null",
                                   CatchResponse(r.error))
                   /\ req' = req
              ELSE /\ req' = [req EXCEPT ![h] = AwaitFormData]
                   /\ last' = last
  /\ UNCHANGED <<now, submissions, pure>>

Begin(h, headers) == Admission(h, headers) /\ admits' = admits

\* history: one more request admitted for the client at this instant
LogAdmitted(log, clientId, t) ==
  LET mine == IF clientId \in DOMAIN log THEN log[clientId] ELSE <<>>
      sofar == IF t \in DOMAIN mine THEN mine[t] ELSE 0
  IN  MapSet(log, clientId, MapSet(mine, t, sofar + 1))

\* Begin with the admitted requests logged
BeginLogged(h, headers) ==
  /\ Admission(h, headers)
  /\ admits' = IF req'[h].pc = "formData"
                 THEN LogAdmitted(admits, getClientId(headers), now)
                 ELSE admits

\* req.formData() rejects (the body is not a form): caught at line 213
FormDataRejects(h) ==
  /\ req[h].pc = "formData"
  /\ req' = [req EXCEPT ![h] = Idle]
  /\ last' = Done(TRUE, FALSE, NoValidation, 0, <<>>, "null",
                  CatchResponse(PlainError(<<"Failed to parse body as FormData.">>)))
  /\ UNCHANGED <<now, rateLimitStore, submissions, window, pure, admits>>

\* the insert started but not awaited: success is answered at once
FormDataResolvesEarly(h, formData) ==
  /\ req[h].pc = "formData"
  /\ LET v == ValidateForm(formData)
     IN  /\ req' = [req EXCEPT ![h] = Idle]
         /\ last' = IF v.threw
                      THEN Done(TRUE, TRUE, v, 0, formData, "null", CatchResponse(v.error))
                      ELSE Done(TRUE, TRUE, v, 1, formData, "null", SuccessResponse)
  /\ UNCHANGED <<now, rateLimitStore, submissions, window, pure, admits>>

\* req.formData() resolves: lines 108-202 run up to the insert call
FormDataResolves(h, formData) ==
  /\ req[h].pc = "formData"
  /\ LET v == ValidateForm(formData)
     IN  IF v.threw
           THEN /\ req' = [req EXCEPT ![h] = Idle]
                /\ last' = Done(TRUE, TRUE, v, 0, formData, "null", CatchResponse(v.error))
           ELSE /\ req' = [req EXCEPT ![h] = AwaitInsert(formData, v)]
                /\ last' = last
  /\ UNCHANGED <<now, rateLimitStore, submissions, window, pure, admits>>

\* the insert settles with {error: insertError}: lines 204-226
InsertReturns(h, insertError) ==
  /\ req[h].pc = "insert"
  /\ req' = [req EXCEPT ![h] = Idle]
  /\ IF insertError # "null"
       THEN /\ last' = Done(TRUE, TRUE, req[h].validation, req[h].inserts,
                            req[h].formData, insertError,
                            CatchResponse(PlainError(InsertFailedMessage)))
            /\ submissions' = submissions
       ELSE /\ last' = Done(TRUE, TRUE, req[h].validation, req[h].inserts,
                            req[h].formData, insertError, SuccessResponse)
            /\ submissions' = submissions \cup {req[h].validation.record}
  /\ UNCHANGED <<now, rateLimitStore, window, pure, admits>>

\* time passes, up to a limit
Elapse(d, limit) ==
  /\ now + d <= limit
  /\ now' = now + d
  /\ UNCHANGED <<rateLimitStore, req, last, submissions, window, pure, admits>>

Advance(d) == Elapse(d, MaxNow)

\* calls counted so far in the client's current window
CallsInWindow(clientId) ==
  IF clientId \in DOMAIN window
       /\ now < window[clientId].start + RATE_LIMIT_WINDOW_MS
    THEN window[clientId].calls ELSE 0

\* the second client sends at most MaxOtherCalls requests per window
Budget(headers) == IF headers = HeadersA THEN WindowCallsCap ELSE MaxOtherCalls

Next ==
  \/ \E h \in Handlers, headers \in HeaderPool :
        CallsInWindow(getClientId(headers)) < Budget(headers) /\ Begin(h, headers)
  \/ \E h \in Handlers : FormDataRejects(h)
  \/ \E h \in Handlers, formData \in SmallForms : FormDataResolves(h, formData)
  \/ \E h \in Handlers, e \in {"null"} \cup StoreErrors : InsertReturns(h, e)
  \/ \E d \in TimeSteps : Advance(d)

Spec == Init /\ [][Next]_vars

(***************************************************************************)
(* The first request after start, with any form of AllForms                *)
(***************************************************************************)
NextForms ==
  \/ window = <<>> /\ Begin("h1", HeadersB)
  \/ FormDataRejects("h1")
  \/ \E formData \in AllForms : FormDataResolves("h1", formData)
  \/ \E e \in {"null"} \cup StoreErrors : InsertReturns("h1", e)
  \/ Advance(RATE_LIMIT_WINDOW_MS - 1)

SpecForms == Init /\ [][NextForms]_vars

(***************************************************************************)
(* Spec with every awaited call settling eventually                        *)
(***************************************************************************)
FormDataSettles(h) ==
  FormDataRejects(h) \/ \E formData \in SmallForms : FormDataResolves(h, formData)

InsertSettles(h) == \E e \in {"null"} \cup StoreErrors : InsertReturns(h, e)

\* the first client alone
NextLive ==
  \/ \E h \in Handlers :
        CallsInWindow(ClientA) < Budget(HeadersA) /\ Begin(h, HeadersA)
  \/ \E h \in Handlers : FormDataRejects(h)
  \/ \E h \in Handlers, formData \in SmallForms : FormDataResolves(h, formData)
  \/ \E h \in Handlers, e \in {"null"} \cup StoreErrors : InsertReturns(h, e)
  \/ \E d \in TimeSteps : Advance(d)

SpecLive ==
  /\ Init /\ [][NextLive]_vars
  /\ \A h \in Handlers : WF_vars(FormDataSettles(h)) /\ WF_vars(InsertSettles(h))

(***************************************************************************)
(* One handler and the first client, with the admitted requests logged     *)
(***************************************************************************)
NextBurst ==
  \/ CallsInWindow(ClientA) < Budget(HeadersA) /\ BeginLogged("h1", HeadersA)
  \/ FormDataRejects("h1")
  \/ FormDataResolves("h1", ValidForm)
  \/ InsertReturns("h1", "null")
  \/ \E d \in TimeSteps : Elapse(d, MaxBurstNow)

SpecBurst == Init /\ [][NextBurst]_vars

(***************************************************************************)
(* The form page: fieldRules and validateTextField                         *)
(***************************************************************************)
PhoneMsg ==
  <<"Ingresa un teléfono válido (7-20 dígitos, se permiten + ( ) - . y espacios).">>
EmailMsg == <<"Ingresa un correo válido.">>
GradeMsg == <<"Usa solo letras o números, máximo 15 caracteres.">>
IdMsg == <<"Solo números, letras, puntos o guiones (5-30 caracteres).">>

ClientRule(label, maxLength, pattern, patternMsg) ==
  [label |-> label, maxLength |-> maxLength, pattern |-> pattern,
   patternMsg |-> patternMsg]

phoneRule(label) == ClientRule(label, 20, "phone", PhoneMsg)
emailRule(label) == ClientRule(label, 120, "email", EmailMsg)

\* <<>> stands for an absent patternMsg
fieldRules ==
  [student_name         |-> ClientRule("nombre del estudiante", 120, "none", <<>>),
   grade                |-> ClientRule("grado a cursar", 15, "grade", GradeMsg),
   address              |-> ClientRule("dirección", 150, "none", <<>>),
   municipio            |-> ClientRule("municipio", 100, "none", <<>>),
   sector               |-> ClientRule("sector", 100, "none", <<>>),
   urbanizacion         |-> ClientRule("urbanización", 100, "none", <<>>),
   bloque               |-> ClientRule("bloque o interior", 50, "none", <<>>),
   father_name          |-> ClientRule("nombre del padre", 120, "none", <<>>),
   father_phone         |-> phoneRule("celular del padre"),
   father_office_phone  |-> phoneRule("teléfono de oficina (padre)"),
   father_email         |-> emailRule("email del padre"),
   mother_name          |-> ClientRule("nombre de la madre", 120, "none", <<>>),
   mother_phone         |-> phoneRule("celular de la madre"),
   mother_office_phone  |-> phoneRule("teléfono de oficina (madre)"),
   mother_email         |-> emailRule("email de la madre"),
   other_guardian       |-> ClientRule("otro acudiente", 120, "none", <<>>),
   other_guardian_phone |-> phoneRule("celular del otro acudiente"),
   responsible_id       |-> ClientRule("cédula del responsable", 30, "id", IdMsg),
   observaciones        |-> ClientRule("observaciones", 500, "none", <<>>)]

TooLongMessage(label, maxLength) ==
  <<label, " debe tener máximo ", maxLength, " caracteres.">>

\* the error message for the value, <<>> standing for ""
validateTextField(name, value) ==
  LET rule    == fieldRules[name]
      trimmed == Trim(value)
  IN  IF trimmed = <<>> THEN RequiredMessage(rule.label)
      ELSE IF Len(trimmed) > rule.maxLength
        THEN TooLongMessage(rule.label, rule.maxLength)
      ELSE IF rule.pattern # "none" /\ ~PatternTest(rule.pattern, trimmed)
        THEN IF rule.patternMsg # <<>> THEN rule.patternMsg
             ELSE FormatMessage(rule.label)
      ELSE <<>>

(***************************************************************************)
(* Single calls of sanitizeText and parseField                             *)
(***************************************************************************)
Strings(alphabet, n) == UNION {[1..k -> alphabet] : k \in 0..n}

SanitizeAlphabet == {"a", " ", "TAB", "NUL", "U+00A0", "DEL"}
TailAlphabet == {"1", "x", " ", "NUL"}

\* a value that fits the field's pattern up to its last characters
Stem(key) ==
  IF FieldRules[key].pattern = "email" THEN <<"a", "@", "b", ".">> ELSE <<>>

\* values of about the field's maximum length, and short ones
FieldInputs(key) ==
  {Stem(key) \o Rep("1", k) \o tail :
     k \in {0, FieldRules[key].maxLength - Len(Stem(key)) - 1},
     tail \in Strings(TailAlphabet, MaxTail)}

SanitizeCall(value, maxLength) ==
  [NoCall EXCEPT !.op = "sanitizeText", !.entries = <<value>>, !.maxLength = maxLength]

ParseFieldCall(key, entries) ==
  [NoCall EXCEPT !.op = "parseField", !.key = key, !.entries = entries,
                 !.maxLength = FieldRules[key].maxLength]

\* values a client may send under service_options
RawServices ==
  {<<"A", "M">>, <<"P", "M">>, <<"1", "/", "2">>, <<"X", "X">>, <<>>, <<" ", "NUL">>,
   <<"TAB", "A", "M", " ">>,
   <<"A", "M", " ", "A", "M", " ", "A", "M", " ", "A", "M">>}

ParseServicesCall(raw) ==
  [NoCall EXCEPT !.op = "parseServices", !.key = "service_options", !.entries = raw,
                 !.maxLength = 10]

HeaderAlphabet == {"7", " ", ","}

HeaderInputs ==
  {[xff |-> f, xri |-> r] :
     f \in {Null} \cup {JsString(v) : v \in Strings(HeaderAlphabet, MaxHeader)},
     r \in {Null, JsString(<<>>), JsString(<<"9">>)}}

GetClientIdCall(headers) ==
  [NoCall EXCEPT !.op = "getClientId", !.entries = <<headers>>]

\* digits set apart by a run of spaces
SpacedInputs ==
  {Rep("1", d) \o Rep(" ", n) \o <<"2">> : d \in 1..MaxDigits, n \in 0..MaxGap}

\* values typed into the form's input of a text field
TypedInputs(key) == FieldInputs(key) \cup SpacedInputs

ValidateTextFieldCall(key, value) ==
  [NoCall EXCEPT !.op = "validateTextField", !.key = key, !.entries = <<value>>,
                 !.maxLength = fieldRules[key].maxLength]

InitPure ==
  /\ ServerInit
  /\ pure \in {SanitizeCall(v, n) : v \in Strings(SanitizeAlphabet, MaxText), n \in 1..MaxSlice}
         \cup UNION {{ParseFieldCall(key, <<v>>) : v \in FieldInputs(key)} : key \in TextFields}
         \cup {ParseFieldCall(key, <<>>) : key \in TextFields}
         \cup {ParseServicesCall(raw) : raw \in Strings(RawServices, MaxServices)}
         \cup {GetClientIdCall(headers) : headers \in HeaderInputs}
         \cup UNION {{ValidateTextFieldCall(key, v) : v \in TypedInputs(key)} :
                       key \in TextFields}

server == <<now, rateLimitStore, req, last, submissions, window, admits>>

ApplySanitizeText ==
  /\ pure.op = "sanitizeText" /\ ~pure.done
  /\ pure' = [pure EXCEPT !.done = TRUE,
                          !.result = Returned(sanitizeText(pure.entries[1], pure.maxLength), 1)]
  /\ UNCHANGED server

ApplyParseField ==
  /\ pure.op = "parseField" /\ ~pure.done
  /\ pure' = [pure EXCEPT !.done = TRUE,
                !.result = parseField([k \in {pure.key} |-> pure.entries],
                                      pure.key, FieldRules[pure.key])]
  /\ UNCHANGED server

\* the accepted value is submitted again under the same name
ApplyParseFieldAgain ==
  /\ pure.op = "parseField" /\ pure.done /\ ~pure.result.threw /\ ~pure.again
  /\ pure' = [pure EXCEPT !.again = TRUE,
                !.second = parseField([k \in {pure.key} |-> <<pure.result.value>>],
                                      pure.key, FieldRules[pure.key])]
  /\ UNCHANGED server

ApplyParseServices ==
  /\ pure.op = "parseServices" /\ ~pure.done
  /\ pure' = [pure EXCEPT !.done = TRUE,
                !.result = parseServices([k \in {"service_options"} |-> pure.entries])]
  /\ UNCHANGED server

ApplyGetClientId ==
  /\ pure.op = "getClientId" /\ ~pure.done
  /\ pure' = [pure EXCEPT !.done = TRUE,
                !.result = Returned(getClientId(pure.entries[1]), 1)]
  /\ UNCHANGED server

ApplyValidateTextField ==
  /\ pure.op = "validateTextField" /\ ~pure.done
  /\ pure' = [pure EXCEPT !.done = TRUE,
                !.result = Returned(validateTextField(pure.key, pure.entries[1]), 1)]
  /\ UNCHANGED server

\* handleSubmit: with no error message the value as typed goes to the server
SubmitValidated ==
  /\ pure.op = "validateTextField" /\ pure.done /\ pure.result.value = <<>>
  /\ ~pure.again
  /\ pure' = [pure EXCEPT !.again = TRUE,
                !.second = parseField([k \in {pure.key} |-> pure.entries],
                                      pure.key, FieldRules[pure.key])]
  /\ UNCHANGED server

NextPure ==
  \/ ApplyValidateTextField
  \/ SubmitValidated
  \/ ApplySanitizeText
  \/ ApplyParseField
  \/ ApplyParseFieldAgain
  \/ ApplyParseServices
  \/ ApplyGetClientId

SpecPure == InitPure /\ [][NextPure]_vars

(***************************************************************************)
(* Properties                                                              *)
(***************************************************************************)
FieldThrows(formData, key) == parseField(formData, key, FieldRules[key]).threw
FieldError(formData, key) == parseField(formData, key, FieldRules[key]).error
InvalidFields(formData) == {key \in TextFields : FieldThrows(formData, key)}
ServicesThrow(formData) == parseServices(formData).threw
FormInvalid(formData) == InvalidFields(formData) # {} \/ ServicesThrow(formData)

Position(order, key) == CHOOSE i \in 1..Len(order) : order[i] = key

EarliestInvalid(formData, order) ==
  CHOOSE f \in InvalidFields(formData) :
    \A g \in InvalidFields(formData) : Position(order, f) <= Position(order, g)

\* C1: counted from the call that opens a window (the first call of a client,
\* or its first call at or after the previous window's end), calls 1..10 of
\* the window are admitted and every later call of the window is rejected
\* with a ClientError of status 429
RateLimitWindowContract ==
  \A c \in DOMAIN window :
    /\ window[c].calls <= RATE_LIMIT_MAX_REQUESTS => window[c].lastError = NoError
    /\ window[c].calls > RATE_LIMIT_MAX_REQUESTS =>
         /\ window[c].lastError.name = "ClientError"
         /\ window[c].lastError.status = 429

\* the eleventh call of a window that replaced an expired one is rejected
WitnessEleventhAfterReset ==
  /\ ClientA \in DOMAIN window
  /\ window[ClientA].reopened
  /\ window[ClientA].calls = RATE_LIMIT_MAX_REQUESTS + 1
  /\ window[ClientA].admitted = RATE_LIMIT_MAX_REQUESTS
  /\ window[ClientA].lastError.status = 429

\* C2: a request the rate limiter rejects is answered 429 with the rate
\* limiter's message, and nothing was parsed, validated or inserted for it
RejectedDoesNoWork ==
  (last.done /\ ~last.admitted) =>
    /\ last.response = Response(429, FALSE, <<>>, RateLimitMessage)
    /\ ~last.parsed
    /\ last.fieldCalls = 0 /\ last.serviceCalls = 0
    /\ last.inserts = 0

WitnessRejected ==
  /\ last.done /\ ~last.admitted
  /\ last.response.status = 429
  /\ \E h \in Handlers : req[h].pc = "insert"

\* C3: per request at most one insert, made only after all nineteen fields
\* and the service options passed; a request answered 400 or 429 made none
InsertedOrNot(inserts, v, formData) ==
  /\ inserts <= 1
  /\ inserts = 1 =>
       /\ ~v.threw
       /\ v.fieldCalls = Len(FieldOrder) /\ v.serviceCalls = 1
       /\ ~FormInvalid(formData)

InsertOnceAfterValidation ==
  /\ \A h \in Handlers : InsertedOrNot(req[h].inserts, req[h].validation, req[h].formData)
  /\ last.inserts <= 1
  /\ last.inserts = 1 =>
       /\ last.fieldCalls = Len(FieldOrder) /\ last.serviceCalls = 1
       /\ ~FormInvalid(last.formData)
  /\ (last.done /\ last.response.status \in {400, 429}) => last.inserts = 0

WitnessInsertFailedOnce ==
  /\ last.done /\ last.insertError # "null" /\ last.inserts = 1
  /\ \A h \in Handlers : req[h].pc = "idle"

\* C4: an admitted request with an invalid field or service set is answered
\* 400 with the error of the first failing parseField call (or of
\* parseServices when all fields pass); no later call is made, no insert
FailFast ==
  (last.done /\ last.parsed /\ FormInvalid(last.formData)) =>
    /\ last.response.status = 400
    /\ last.inserts = 0
    /\ IF InvalidFields(last.formData) # {}
         THEN LET f == EarliestInvalid(last.formData, FieldOrder)
              IN  /\ last.response.error = FieldError(last.formData, f).message
                  /\ last.fieldCalls = Position(FieldOrder, f)
                  /\ last.serviceCalls = 0
         ELSE /\ last.response.error = ServicesMessage
              /\ last.fieldCalls = Len(FieldOrder)
              /\ last.serviceCalls = 1

\* father_email missing, a later field bad as well: the email is named
WitnessMissingFatherEmail ==
  /\ last.done /\ last.parsed
  /\ last.formData = WithBad(ValidForm, {"father_email", "observaciones"}, "absent")
  /\ last.response = Response(400, FALSE, <<>>, RequiredMessage("email del padre"))
  /\ last.fieldCalls = 11

\* C5: as claimed, with the order of the rule table of section 4.2
TableOrderError ==
  (last.done /\ last.parsed /\ InvalidFields(last.formData) # {}) =>
    last.response.error =
      FieldError(last.formData, EarliestInvalid(last.formData, TableOrder)).message

\* C5, amended: the fields are validated in the order of the parseField
\* calls in POST, then the service options: of two invalid fields the error
\* answered is never that of the one validated later, and never that of the
\* service options while a field is invalid
SourceOrderError ==
  (last.done /\ last.parsed) =>
    /\ \A f \in InvalidFields(last.formData), g \in InvalidFields(last.formData) :
         Position(FieldOrder, f) < Position(FieldOrder, g) =>
           /\ last.response.status = 400
           /\ last.response.error # FieldError(last.formData, g).message
    /\ (InvalidFields(last.formData) # {} /\ ServicesThrow(last.formData)) =>
         last.response.error # ServicesMessage

\* grade and father_name invalid: grade's error is answered
WitnessGradeBeforeFatherName ==
  /\ last.done /\ last.parsed
  /\ InvalidFields(last.formData) = {"grade", "father_name"}
  /\ last.response.error = FormatMessage("grado a cursar")

\* C6: with handlers interleaving at their awaits, the stored count of a
\* client equals the number of its requests admitted in the current window
\* and never exceeds 10
AtomicAdmission ==
  \A c \in DOMAIN window :
    /\ window[c].admitted <= RATE_LIMIT_MAX_REQUESTS
    /\ c \in DOMAIN rateLimitStore
    /\ rateLimitStore[c].hits = window[c].admitted
    /\ rateLimitStore[c].expiresAt = window[c].start + RATE_LIMIT_WINDOW_MS

\* two first requests of a new client in flight together: one entry, hits 2
WitnessTwoConcurrentFirst ==
  /\ DOMAIN rateLimitStore = {ClientA}
  /\ window[ClientA].calls = 2 /\ ~window[ClientA].reopened
  /\ \A h \in Handlers : req[h].pc = "formData"
  /\ rateLimitStore[ClientA].hits = 2

\* C7: whatever detail the failed insert carries, the answer is the same
\* 500 with success = false and the generic message, after one insert
StoreFailureGeneric ==
  (last.done /\ last.insertError # "null") =>
    /\ last.response = Response(500, FALSE, <<>>, GenericMessage)
    /\ last.inserts = 1

WitnessStoreFailure ==
  /\ last.done /\ last.insertError = "connection refused"
  /\ last.response.status = 500
  /\ submissions = {}

\* C8: the status tells the outcome
StatusByOutcome ==
  last.done =>
    LET status  == last.response.status
        invalid == last.parsed /\ FormInvalid(last.formData)
    IN  /\ status \in {200, 400, 429, 500}
        /\ status = 429 <=> ~last.admitted
        /\ status = 400 <=> (last.admitted /\ invalid)
        /\ status = 500 <=> (last.admitted /\ (~last.parsed
                                \/ (~invalid /\ last.insertError # "null")))
        /\ (status = 200 /\ last.response.success) <=>
             (last.inserts = 1 /\ last.insertError = "null")
        /\ last.response.success <=> status = 200

WitnessSuccess ==
  /\ last.done /\ last.response = SuccessResponse
  /\ last.record \in submissions

\* C9: a value parseField accepted is accepted again, unchanged
ValidationIdempotent ==
  (pure.op = "parseField" /\ pure.again) =>
    /\ ~pure.second.threw
    /\ pure.second.value = pure.result.value

\* C10: the output of sanitizeText has no C0 control character and no DEL,
\* no two consecutive whitespace characters, and at most maxLength characters
SanitizeOutputClean ==
  (pure.op = "sanitizeText" /\ pure.done) =>
    LET out == pure.result.value
    IN  /\ \A i \in 1..Len(out) : out[i] \notin ControlChars
        /\ \A i \in 1..(Len(out) - 1) : ~(IsSpace(out[i]) /\ IsSpace(out[i + 1]))
        /\ Len(out) <= pure.maxLength

\* a control character and whitespace were in the input, and it was cut
WitnessSanitizedAndCut ==
  /\ pure.op = "sanitizeText" /\ pure.done
  /\ pure.entries[1] = <<"NUL", "a", "U+00A0", "a">> /\ pure.maxLength = 2
  /\ pure.result.value = <<"a", " ">>

\* C11: every run of whitespace (newlines and tabs included) between two
\* retained characters comes out as exactly one space, when nothing is cut
KeepWhitespaceControls(s) == SelectSeq(s, LAMBDA c : ~IsControl(c) \/ IsSpace(c))

WhitespaceRunsBecomeOneSpace ==
  (pure.op = "sanitizeText" /\ pure.done) =>
    LET expected == Trim(CollapseWhitespace(KeepWhitespaceControls(pure.entries[1])))
    IN  Len(expected) <= pure.maxLength => pure.result.value = expected

\* C12: parseField answers "required" exactly for an absent, empty or
\* blank value, otherwise "invalid format" exactly when the rule has a
\* pattern the sanitized value does not match, otherwise the sanitized value
ParseFieldAlgorithm ==
  (pure.op = "parseField" /\ pure.done) =>
    LET rule      == FieldRules[pure.key]
        absent    == pure.entries = <<>> \/ pure.entries[1] = <<>>
        sanitized == IF absent THEN <<>> ELSE sanitizeText(pure.entries[1], rule.maxLength)
        required  == absent \/ sanitized = <<>>
        mismatch  == rule.pattern # "none" /\ ~PatternTest(rule.pattern, sanitized)
    IN  /\ required <=>
             (pure.result.threw
                /\ pure.result.error = ClientError(RequiredMessage(rule.label), 400))
        /\ (~required /\ mismatch) <=>
             (pure.result.threw
                /\ pure.result.error = ClientError(FormatMessage(rule.label), 400))
        /\ (~required /\ ~mismatch) <=>
             (~pure.result.threw /\ pure.result.value = sanitized)

\* a phone of blanks and controls only is "required", not "invalid format"
WitnessBlankIsRequired ==
  /\ pure.op = "parseField" /\ pure.done /\ pure.key = "father_phone"
  /\ pure.entries = << <<" ", "NUL", " ">> >>
  /\ pure.result.error = ClientError(RequiredMessage("celular del padre"), 400)

\* C13: parseServices succeeds exactly when, after sanitizing to 10
\* characters and dropping empty results, a value remains and all remaining
\* values are allowed; it then returns each remaining value once; every
\* failure is the same client error
ParseServicesContract ==
  (pure.op = "parseServices" /\ pure.done) =>
    LET remaining == {sanitizeText(pure.entries[i], 10) : i \in 1..Len(pure.entries)}
                       \ {<<>>}
        ok        == remaining # {} /\ remaining \subseteq ALLOWED_SERVICES
    IN  /\ ok <=> ~pure.result.threw
        /\ ok => /\ Range(pure.result.value) = remaining
                 /\ Len(pure.result.value) = Cardinality(remaining)
        /\ ~ok => pure.result.error = ClientError(ServicesMessage, 400)

\* AM, AM, PM gives AM and PM once each
WitnessServicesDeduplicated ==
  /\ pure.op = "parseServices" /\ pure.done
  /\ pure.entries = << <<"A", "M">>, <<"A", "M">>, <<"P", "M">> >>
  /\ pure.result.value = << <<"A", "M">>, <<"P", "M">> >>

\* C15: the first element of x-forwarded-for, trimmed, when it is not empty;
\* otherwise x-real-ip when there is one; otherwise "unknown"
ClientIdAsClaimed ==
  (pure.op = "getClientId" /\ pure.done) =>
    LET headers == pure.entries[1]
        first   == IF headers.xff.null THEN <<>>
                   ELSE Trim(FirstCommaPart(headers.xff.str))
    IN  pure.result.value =
          IF first # <<>> THEN first
          ELSE IF ~Falsy(headers.xri) THEN headers.xri.str
          ELSE Unknown

\* C14: every record handed to the insert has all nineteen text fields,
\* each non-empty, within its maximum length and matching its pattern, and
\* a non-empty, duplicate-free service_options within AM, PM, 1/2; the
\* all-valid form with service_options = [AM] hands over one such record
RecordWellFormed(rec) ==
  /\ DOMAIN rec = FormKeys
  /\ \A k \in TextFields :
       /\ rec[k] # <<>>
       /\ Len(rec[k]) <= FieldRules[k].maxLength
       /\ FieldRules[k].pattern # "none" => PatternTest(FieldRules[k].pattern, rec[k])
  /\ Len(rec["service_options"]) >= 1
  /\ Range(rec["service_options"]) \subseteq ALLOWED_SERVICES
  /\ \A i \in 1..Len(rec["service_options"]), j \in 1..Len(rec["service_options"]) :
       i # j => rec["service_options"][i] # rec["service_options"][j]

InsertedRecordsWellFormed ==
  /\ \A h \in Handlers : req[h].inserts >= 1 => RecordWellFormed(req[h].validation.record)
  /\ last.inserts >= 1 => RecordWellFormed(last.record)
  /\ \A rec \in submissions : RecordWellFormed(rec)
  /\ (last.done /\ last.parsed /\ last.formData = ValidForm) =>
       /\ last.inserts = 1
       /\ last.record = [k \in FormKeys |-> IF k = "service_options" THEN << <<"A", "M">> >>
                                            ELSE ValidValue(k)]

WitnessValidFormStored ==
  /\ last.done /\ last.parsed /\ last.formData = ValidForm
  /\ last.response = SuccessResponse /\ last.inserts = 1
  /\ submissions = {last.record}

\* C16: before and after every step every entry has 1 <= hits <= 10, and no
\* step taken while an entry is unexpired lowers its hits
HitsBounds ==
  \A c \in DOMAIN rateLimitStore :
    rateLimitStore[c].hits >= 1 /\ rateLimitStore[c].hits <= RATE_LIMIT_MAX_REQUESTS

HitsNeverDropInWindow ==
  \A c \in DOMAIN rateLimitStore :
    rateLimitStore[c].expiresAt > now =>
      /\ c \in DOMAIN rateLimitStore'
      /\ rateLimitStore'[c].hits >= rateLimitStore[c].hits

HitsBoundedAndMonotone ==
  [][HitsBounds /\ HitsBounds' /\ HitsNeverDropInWindow]_vars

\* a full, unexpired entry after a rejected call
WitnessFullEntry ==
  /\ ClientA \in DOMAIN rateLimitStore
  /\ rateLimitStore[ClientA].hits = RATE_LIMIT_MAX_REQUESTS
  /\ rateLimitStore[ClientA].expiresAt > now
  /\ window[ClientA].calls > RATE_LIMIT_MAX_REQUESTS

\* C17: a call of a client with no entry, or with an entry whose expiresAt
\* is at or before now, is admitted and leaves hits = 1, expiresAt = now + 5 min
ExpiredOrNew(c) ==
  c \notin DOMAIN rateLimitStore \/ rateLimitStore[c].expiresAt <= now

ExpiredAlwaysAdmitted ==
  [][\A h \in Handlers, headers \in HeaderPool :
       (Begin(h, headers) /\ ExpiredOrNew(getClientId(headers))) =>
         /\ req'[h].pc = "formData"
         /\ last' = last
         /\ rateLimitStore'[getClientId(headers)] =
              [hits |-> 1, expiresAt |-> now + RATE_LIMIT_WINDOW_MS]]_vars

\* the first call of a second window arrived exactly when the first expired
WitnessResetAtExpiry ==
  /\ ClientA \in DOMAIN window
  /\ window[ClientA].reopened /\ window[ClientA].calls = 1
  /\ window[ClientA].start = RATE_LIMIT_WINDOW_MS /\ now = RATE_LIMIT_WINDOW_MS
  /\ rateLimitStore[ClientA] = [hits |-> 1, expiresAt |-> 2 * RATE_LIMIT_WINDOW_MS]

\* C18: a call on an unexpired entry keeps its expiresAt; admitted, it adds
\* exactly 1 to hits; rejected, it leaves the whole map as it was
UnexpiredCallFrame ==
  [][\A h \in Handlers, headers \in HeaderPool :
       LET c == getClientId(headers)
       IN  (Begin(h, headers) /\ ~ExpiredOrNew(c)) =>
             /\ rateLimitStore'[c].expiresAt = rateLimitStore[c].expiresAt
             /\ req'[h].pc = "formData" =>
                  rateLimitStore' = [rateLimitStore EXCEPT ![c].hits = @ + 1]
             /\ req' = req => rateLimitStore' = rateLimitStore]_vars

\* a rejected call with both clients in the map, well inside the window
WitnessRejectedInsideWindow ==
  /\ last.done /\ ~last.admitted
  /\ Cardinality(DOMAIN rateLimitStore) = 2
  /\ now = RATE_LIMIT_WINDOW_MS - 1
  /\ rateLimitStore[ClientA] = [hits |-> RATE_LIMIT_MAX_REQUESTS,
                                expiresAt |-> RATE_LIMIT_WINDOW_MS]

\* C19: a request in flight is eventually answered once its awaited calls
\* settle; the answer comes in the step that ends the request, and for an
\* admitted valid request that is the step in which the insert settles
AnsweredOnSettle ==
  /\ \A h \in Handlers :
       /\ (req[h].pc = "idle" /\ req'[h] # req[h]) =>
            (req'[h].pc = "formData" /\ last' = last)
       /\ (req[h].pc = "formData" /\ req'[h].pc = "insert") => last' = last
       /\ (req[h].pc = "formData" /\ req'[h].pc = "idle") =>
            /\ last'.done /\ last'.inserts = 0
            /\ last'.response.status \in {400, 500}
       /\ (req[h].pc = "insert" /\ req'[h] # req[h]) =>
            /\ req'[h].pc = "idle"
            /\ last'.done /\ last'.inserts = 1
            /\ last'.response.status \in {200, 500}
            /\ last'.response.status = 200 <=> last'.insertError = "null"
  /\ (req' = req /\ last' # last) => (last'.done /\ last'.response.status = 429)

EveryRequestAnswered ==
  /\ \A h \in Handlers : (req[h].pc # "idle") ~> (req[h].pc = "idle")
  /\ [][AnsweredOnSettle]_vars

\* one request answered 200 while the other still waits for its insert
WitnessAnsweredWhileOtherWaits ==
  /\ last.done /\ last.response.status = 200
  /\ req["h1"].pc = "idle" /\ req["h2"].pc = "insert"

\* C20: for one client, the requests admitted at instants lying within any
\* interval of at most five minutes number at most 20
RECURSIVE SumAt(_, _)
SumAt(f, S) ==
  IF S = {} THEN 0
  ELSE LET t == CHOOSE x \in S : TRUE IN f[t] + SumAt(f, S \ {t})

AdmittedWithin(c, t1, t2) ==
  SumAt(admits[c], {t \in DOMAIN admits[c] : t1 <= t /\ t <= t2})

BurstAtMostTwiceMax ==
  \A c \in DOMAIN admits :
    \A t1 \in DOMAIN admits[c], t2 \in DOMAIN admits[c] :
      (t1 <= t2 /\ t2 - t1 <= RATE_LIMIT_WINDOW_MS) =>
        AdmittedWithin(c, t1, t2) <= 2 * RATE_LIMIT_MAX_REQUESTS

\* 20 admitted within five minutes: 10 as a window opens, 10 as it expires
WitnessBoundaryBurst ==
  /\ ClientA \in DOMAIN admits
  /\ {0, RATE_LIMIT_WINDOW_MS} \subseteq DOMAIN admits[ClientA]
  /\ AdmittedWithin(ClientA, 0, RATE_LIMIT_WINDOW_MS) = 2 * RATE_LIMIT_MAX_REQUESTS
  /\ AdmittedWithin(ClientA, 0, RATE_LIMIT_WINDOW_MS) > RATE_LIMIT_MAX_REQUESTS


\* C21: a value for which the form's validateTextField reports no error is
\* accepted by the server's parseField under the same field's rule
ClientAtLeastAsStrict ==
  (pure.op = "validateTextField" /\ pure.again) => ~pure.second.threw

=============================================================================
